---- MODULE Spec2Model ----
(***************************************************************************)
(* Model of apps/desktop/src-tauri/src/lib.rs: the Tauri command           *)
(* tts_synthesize, a proxy that forwards one text-to-speech request to the *)
(* Fish Audio endpoint and turns the outcome into a TtsResponse.           *)
(*                                                                         *)
(* Each invocation is a process with its own locals.  The environment      *)
(* (serde, reqwest, the network) chooses the outcome of every fallible     *)
(* step: deserialization of the inbound payload, construction of the HTTP  *)
(* client, the send, and the body read.                                    *)
(*                                                                         *)
(* The three message literals of the source are non-ASCII.  They are       *)
(* written here with their code points as Rust escapes, so "\\u{8bf7}" is  *)
(* the one character U+8BF7.                                               *)
(***************************************************************************)
EXTENDS Integers, Sequences, FiniteSets, TLC

VARIABLES
    pc,          \* position of each invocation in tts_synthesize
    payload,     \* the inbound payload the front end passed
    request,     \* request: TtsRequest, once deserialized
    outbound,    \* the request handed to send()
    sendResult,  \* result: Err(e), or Ok(response) kept as its status
    readResult,  \* what response.bytes() / response.text() gave
    result,      \* the TtsResponse returned to the caller
    sends,       \* calls of send()
    reads        \* calls of response.bytes() / response.text()

vars == <<pc, payload, request, outbound, sendResult, readResult, result,
          sends, reads>>

----------------------------------------------------------------------------
(* Bounds of the model *)

\* number of invocations that may be in flight together
NumCalls == 2

\* longest response body, in bytes
MaxBody == 4

Calls == 1..NumCalls

----------------------------------------------------------------------------
(* Option<T> and Result<T, E> *)

None == [tag |-> "None"]

Some(x) == [tag |-> "Some", val |-> x]

Ok(x) == [tag |-> "Ok", val |-> x]

Err(e) == [tag |-> "Err", err |-> e]

\* Result::unwrap_or_default for a Result<String, E>
unwrap_or_default(r) == IF r.tag = "Ok" THEN r.val ELSE ""

----------------------------------------------------------------------------
(* TtsRequest and its deserialization *)

default_model == "s1"

\* the format default taken from the model default
default_format_FromModel == "s1"

default_format == "mp3"

RequiredFields == {"text", "api_key", "reference_id"}

\* serde's derived Deserialize: a missing field without a default is an
\* error, a missing field with a default takes the default, a supplied
\* field is kept.
Deserialize(p) ==
    IF ~(RequiredFields \subseteq DOMAIN p)
    THEN Err("missing field")
    ELSE Ok([text         |-> p["text"],
             api_key      |-> p["api_key"],
             reference_id |-> p["reference_id"],
             model        |-> IF "model" \in DOMAIN p
                              THEN p["model"] ELSE default_model,
             format       |-> IF "format" \in DOMAIN p
                              THEN p["format"] ELSE default_format])

----------------------------------------------------------------------------
(* The outbound request *)

Endpoint == "https://api.fish.audio/v1/tts"

\* the body with the model passed on as well
JsonBody_WithModel(req) ==
    [text         |-> req.text,
     reference_id |-> req.reference_id,
     format       |-> req.format,
     model        |-> req.model]

\* serde_json::json!({...}): the JSON body
JsonBody(req) ==
    [text         |-> req.text,
     reference_id |-> req.reference_id,
     format       |-> req.format]

\* client.post(..).header(..).header(..).json(&body)
BuildRequest(req) ==
    [method  |-> "POST",
     url     |-> Endpoint,
     headers |-> [Authorization |-> "Bearer " \o req.api_key,
                  ContentType   |-> "application/json"],
     body    |-> JsonBody(req)]

----------------------------------------------------------------------------
(* The response status *)

\* StatusCode::is_success
is_success(s) == 300 > s /\ s >= 200

\* StatusCode::canonical_reason
canonical_reason(s) ==
    CASE s = 200 -> Some("OK")
      [] s = 300 -> Some("Multiple Choices")
      [] s = 401 -> Some("Unauthorized")
      [] s = 500 -> Some("Internal Server Error")
      [] OTHER   -> None

\* Display of StatusCode: the code, a space, the canonical reason
StatusDisplay(s) ==
    ToString(s) \o " " \o
    (IF canonical_reason(s).tag = "Some"
     THEN canonical_reason(s).val ELSE "<unknown status code>")

----------------------------------------------------------------------------
(* base64::engine::general_purpose::STANDARD *)

Alphabet ==
    << "A", "B", "C", "D", "E", "F", "G", "H", "I", "J", "K", "L", "M",
       "N", "O", "P", "Q", "R", "S", "T", "U", "V", "W", "X", "Y", "Z",
       "a", "b", "c", "d", "e", "f", "g", "h", "i", "j", "k", "l", "m",
       "n", "o", "p", "q", "r", "s", "t", "u", "v", "w", "x", "y", "z",
       "0", "1", "2", "3", "4", "5", "6", "7", "8", "9", "+", "/" >>

\* one group of 1..3 input bytes, padded with '=' to 4 characters
EncodeChunk(c) ==
    LET b0 == c[1]
        b1 == IF Len(c) >= 2 THEN c[2] ELSE 0
        b2 == IF Len(c) >= 3 THEN c[3] ELSE 0
        n  == b0 * 65536 + b1 * 256 + b2
    IN  Alphabet[(n \div 262144) + 1]
        \o Alphabet[((n \div 4096) % 64) + 1]
        \o (IF Len(c) >= 2 THEN Alphabet[((n \div 64) % 64) + 1] ELSE "=")
        \o (IF Len(c) >= 3 THEN Alphabet[(n % 64) + 1] ELSE "=")

\* the STANDARD_NO_PAD engine: the same alphabet, no '=' padding
RECURSIVE STANDARD_NO_PAD_encode(_)
STANDARD_NO_PAD_encode(bytes) ==
    LET chunk(c) ==
          LET n == c[1] * 65536 + (IF Len(c) >= 2 THEN c[2] ELSE 0) * 256
                   + (IF Len(c) >= 3 THEN c[3] ELSE 0)
          IN  Alphabet[(n \div 262144) + 1]
              \o Alphabet[((n \div 4096) % 64) + 1]
              \o (IF Len(c) >= 2 THEN Alphabet[((n \div 64) % 64) + 1] ELSE "")
              \o (IF Len(c) >= 3 THEN Alphabet[(n % 64) + 1] ELSE "")
    IN  IF Len(bytes) = 0 THEN ""
        ELSE IF Len(bytes) <= 3 THEN chunk(bytes)
        ELSE chunk(SubSeq(bytes, 1, 3))
             \o STANDARD_NO_PAD_encode(SubSeq(bytes, 4, Len(bytes)))

RECURSIVE STANDARD_encode(_)
STANDARD_encode(bytes) ==
    IF Len(bytes) = 0 THEN ""
    ELSE IF Len(bytes) <= 3 THEN EncodeChunk(bytes)
    ELSE EncodeChunk(SubSeq(bytes, 1, 3))
         \o STANDARD_encode(SubSeq(bytes, 4, Len(bytes)))

----------------------------------------------------------------------------
(* TtsResponse, one constructor per arm of the match *)

MsgReadFailed == "\\u{8bfb}\\u{53d6}\\u{54cd}\\u{5e94}\\u{5931}\\u{8d25}: "

MsgApiError == "API\\u{9519}\\u{8bef} "

MsgRequestFailed == "\\u{8bf7}\\u{6c42}\\u{5931}\\u{8d25}: "

\* success with an empty error string instead of no error
OkResponse_EmptyError(bytes) ==
    [success      |-> TRUE,
     audio_base64 |-> Some(STANDARD_encode(bytes)),
     error        |-> Some("")]

\* Ok(response), status is success, Ok(bytes)
OkResponse(bytes) ==
    [success      |-> TRUE,
     audio_base64 |-> Some(STANDARD_encode(bytes)),
     error        |-> None]

\* a failed read that still hands back an (empty) audio string
ReadErrResponse_PartialAudio(e) ==
    [success      |-> FALSE,
     audio_base64 |-> Some(""),
     error        |-> Some(MsgReadFailed \o e)]

\* Ok(response), status is success, Err(e)
ReadErrResponse(e) ==
    [success      |-> FALSE,
     audio_base64 |-> None,
     error        |-> Some(MsgReadFailed \o e)]

\* a non-2xx response whose unreadable body is reported as a read error
ApiErrResponse_PropagatesReadError(status, text) ==
    IF text.tag = "Err"
    THEN ReadErrResponse(text.err)
    ELSE [success      |-> FALSE,
          audio_base64 |-> None,
          error        |-> Some(MsgApiError \o StatusDisplay(status) \o ": "
                                \o text.val)]

\* Ok(response), status is not success
ApiErrResponse(status, text) ==
    [success      |-> FALSE,
     audio_base64 |-> None,
     error        |-> Some(MsgApiError \o StatusDisplay(status) \o ": "
                           \o unwrap_or_default(text))]

\* a failed send reported without the underlying detail
TransportErrResponse_NoDetail(e) ==
    [success      |-> FALSE,
     audio_base64 |-> None,
     error        |-> Some(MsgRequestFailed)]

\* Err(e)
TransportErrResponse(e) ==
    [success      |-> FALSE,
     audio_base64 |-> None,
     error        |-> Some(MsgRequestFailed \o e)]

----------------------------------------------------------------------------
(* Inputs chosen by the caller and by the environment *)

AllFields == {"text", "api_key", "reference_id", "model", "format"}

FullPayloads ==
    [text : {"hello"}, api_key : {"k1", "k2"}, reference_id : {"ref1"},
     model : {"s1", "speech-1.6"}, format : {"mp3", "wav"}]

Restrict(f, D) == [k \in D |-> f[k]]

\* the inbound payloads: complete, without model, without format, without
\* both, and one without the required text
Payloads ==
    { Restrict(f, D) : f \in FullPayloads,
                       D \in { AllFields,
                               AllFields \ {"model"},
                               AllFields \ {"format"},
                               AllFields \ {"model", "format"} } }
    \cup { Restrict(f, AllFields \ {"text"}) :
             f \in { g \in FullPayloads : g.api_key = "k1" /\ g.model = "s1"
                                          /\ g.format = "mp3" } }

\* Display of the reqwest::Error of a failed send
TransportErrors ==
    { "builder error",
      "error sending request for url (https://api.fish.audio/v1/tts)",
      "error following redirect for url (https://api.fish.audio/v1/tts)" }

\* Display of the reqwest::Error of a failed body read
ReadErrors ==
    { "error decoding response body",
      "request or response body error" }

Statuses == {200, 299, 300, 401, 500}

Bytes == {1, 2, 255}

RECURSIVE SeqsUpTo(_, _)
SeqsUpTo(S, n) ==
    IF n = 0 THEN { <<>> }
    ELSE LET shorter == SeqsUpTo(S, n - 1)
         IN  shorter \cup { Append(s, b) : s \in { t \in shorter : Len(t) = n - 1 },
                                           b \in S }

Bodies == SeqsUpTo(Bytes, MaxBody)

Texts == {"", "invalid key"}

TextResults == { Ok(t) : t \in Texts } \cup { Err(e) : e \in ReadErrors }

FullInputs ==
    [payloads |-> Payloads, transportErrors |-> TransportErrors,
     statuses |-> Statuses, bodies |-> Bodies, readErrors |-> ReadErrors,
     textResults |-> TextResults]

\* the inputs of the concurrent specification: one of each kind per branch
ConcInputs ==
    [payloads |-> { Restrict(f, AllFields \ {"model", "format"}) :
                      f \in FullPayloads },
     transportErrors |-> {"builder error"},
     statuses |-> {200, 401},
     bodies |-> { <<1, 2>>, <<255>> },
     readErrors |-> {"error decoding response body"},
     textResults |-> { Ok("invalid key"), Err("error decoding response body") }]

----------------------------------------------------------------------------
(* State *)

Init ==
    /\ pc = [i \in Calls |-> "idle"]
    /\ payload = [i \in Calls |-> None]
    /\ request = [i \in Calls |-> None]
    /\ outbound = [i \in Calls |-> None]
    /\ sendResult = [i \in Calls |-> None]
    /\ readResult = [i \in Calls |-> None]
    /\ result = [i \in Calls |-> None]
    /\ sends = [i \in Calls |-> 0]
    /\ reads = [i \in Calls |-> 0]

----------------------------------------------------------------------------
(* Actions of invocation i *)

\* The front end invokes the command with payload p; the generated handler
\* deserializes it into a TtsRequest, or rejects the invocation.
Invoke(i, p) ==
    /\ pc[i] = "idle"
    /\ payload' = [payload EXCEPT ![i] = Some(p)]
    /\ IF Deserialize(p).tag = "Ok"
       THEN /\ request' = [request EXCEPT ![i] = Some(Deserialize(p).val)]
            /\ pc' = [pc EXCEPT ![i] = "entered"]
       ELSE /\ request' = request
            /\ pc' = [pc EXCEPT ![i] = "rejected"]
    /\ UNCHANGED <<outbound, sendResult, readResult, result, sends, reads>>

\* reqwest::Client::new() succeeds; the body and the request are built and
\* send() is called: the first suspension point.
ClientNewOk(i) ==
    /\ pc[i] = "entered"
    /\ outbound' = [outbound EXCEPT ![i] = Some(BuildRequest(request[i].val))]
    /\ sends' = [sends EXCEPT ![i] = @ + 1]
    /\ pc' = [pc EXCEPT ![i] = "sending"]
    /\ UNCHANGED <<payload, request, sendResult, readResult, result, reads>>

\* reqwest::Client::new() cannot build the client (no TLS backend, no
\* resolver configuration): it has no error value to return and panics.
ClientNewPanic(i) ==
    /\ pc[i] = "entered"
    /\ pc' = [pc EXCEPT ![i] = "panicked"]
    /\ UNCHANGED <<payload, request, outbound, sendResult, readResult, result,
                   sends, reads>>

\* send().await is Err(e)
SendErr(i, e) ==
    /\ pc[i] = "sending"
    /\ sendResult' = [sendResult EXCEPT ![i] = Some(Err(e))]
    /\ result' = [result EXCEPT ![i] = Some(TransportErrResponse(e))]
    /\ pc' = [pc EXCEPT ![i] = "done"]
    /\ UNCHANGED <<payload, request, outbound, readResult, sends, reads>>

\* send().await is Ok(response) with status s; the body read is started:
\* the second suspension point.
SendOk(i, s) ==
    /\ pc[i] = "sending"
    /\ sendResult' = [sendResult EXCEPT ![i] = Some(Ok(s))]
    /\ reads' = [reads EXCEPT ![i] = @ + 1]
    /\ pc' = [pc EXCEPT ![i] = IF is_success(s) THEN "reading_bytes"
                                               ELSE "reading_text"]
    /\ UNCHANGED <<payload, request, outbound, readResult, result, sends>>

\* the response kept in one slot shared by every invocation: whoever is
\* reading bytes gets the result of the read that completed
BytesOk_SharedSlot(i, bytes) ==
    /\ pc[i] = "reading_bytes"
    /\ readResult' = [readResult EXCEPT ![i] = Some(Ok(bytes))]
    /\ result' = [j \in Calls |->
                    IF j = i \/ pc[j] = "reading_bytes"
                    THEN Some(OkResponse(bytes)) ELSE result[j]]
    /\ pc' = [pc EXCEPT ![i] = "done"]
    /\ UNCHANGED <<payload, request, outbound, sendResult, sends, reads>>

\* response.bytes().await is Ok(bytes)
BytesOk(i, bytes) ==
    /\ pc[i] = "reading_bytes"
    /\ readResult' = [readResult EXCEPT ![i] = Some(Ok(bytes))]
    /\ result' = [result EXCEPT ![i] = Some(OkResponse(bytes))]
    /\ pc' = [pc EXCEPT ![i] = "done"]
    /\ UNCHANGED <<payload, request, outbound, sendResult, sends, reads>>

\* response.bytes().await is Err(e)
BytesErr(i, e) ==
    /\ pc[i] = "reading_bytes"
    /\ readResult' = [readResult EXCEPT ![i] = Some(Err(e))]
    /\ result' = [result EXCEPT ![i] = Some(ReadErrResponse(e))]
    /\ pc' = [pc EXCEPT ![i] = "done"]
    /\ UNCHANGED <<payload, request, outbound, sendResult, sends, reads>>

\* response.text().await is r, Ok(text) or Err(e)
TextDone(i, r) ==
    /\ pc[i] = "reading_text"
    /\ readResult' = [readResult EXCEPT ![i] = Some(r)]
    /\ result' = [result EXCEPT ![i] =
                    Some(ApiErrResponse(sendResult[i].val.val, r))]
    /\ pc' = [pc EXCEPT ![i] = "done"]
    /\ UNCHANGED <<payload, request, outbound, sendResult, sends, reads>>

Step(i, in) ==
    \/ \E p \in in.payloads : Invoke(i, p)
    \/ ClientNewOk(i)
    \/ ClientNewPanic(i)
    \/ \E e \in in.transportErrors : SendErr(i, e)
    \/ \E s \in in.statuses : SendOk(i, s)
    \/ \E b \in in.bodies : BytesOk(i, b)
    \/ \E e \in in.readErrors : BytesErr(i, e)
    \/ \E r \in in.textResults : TextDone(i, r)

\* one invocation, every input
Next == Step(1, FullInputs)

Spec == Init /\ [][Next]_vars

\* NumCalls invocations interleaved at their suspension points
NextConc == \E i \in Calls : Step(i, ConcInputs)

SpecConc == Init /\ [][NextConc]_vars

----------------------------------------------------------------------------
(* Vocabulary of the properties *)

Returned(i) == pc[i] = "done"

GotStatus(i) == sendResult[i].tag = "Some" /\ sendResult[i].val.tag = "Ok"

Status(i) == sendResult[i].val.val

TransportFailed(i) == sendResult[i].tag = "Some" /\ sendResult[i].val.tag = "Err"

ReadOk(i) == readResult[i].tag = "Some" /\ readResult[i].val.tag = "Ok"

ReadFailed(i) == readResult[i].tag = "Some" /\ readResult[i].val.tag = "Err"

\* RFC 4648 section 4, read off the bit string: the bytes as bits, most
\* significant first, zero-filled to a multiple of 6, one alphabet
\* character per 6 bits, '=' up to a multiple of 4 characters.
RECURSIVE BitsOf(_)
BitsOf(bytes) ==
    IF bytes = <<>> THEN <<>>
    ELSE [k \in 1..8 |-> (Head(bytes) \div (2 ^ (8 - k))) % 2]
         \o BitsOf(Tail(bytes))

Sextet(bits, g) ==
    LET bit(k) == IF 6 * (g - 1) + k <= Len(bits)
                  THEN bits[6 * (g - 1) + k] ELSE 0
    IN  32 * bit(1) + 16 * bit(2) + 8 * bit(3) + 4 * bit(4) + 2 * bit(5)
        + bit(6)

RECURSIVE Rfc4648Chars(_, _, _)
Rfc4648Chars(bits, g, n) ==
    IF g > n THEN ""
    ELSE Alphabet[Sextet(bits, g) + 1] \o Rfc4648Chars(bits, g + 1, n)

Rfc4648(bytes) ==
    LET bits == BitsOf(bytes)
        n == (Len(bits) + 5) \div 6
        pad == (4 - (n % 4)) % 4
    IN  Rfc4648Chars(bits, 1, n)
        \o (IF pad = 2 THEN "==" ELSE IF pad = 1 THEN "=" ELSE "")

----------------------------------------------------------------------------
(* C1 *)

\* C1: whatever the outcome of the outbound call (transport failure,
\* non-2xx response, 2xx with a readable body, 2xx with an unreadable
\* body), an invocation that has returned has a result, and the result has
\* exactly one of audio_base64 / error: success = true goes with audio
\* present and error absent, success = false with error present and audio
\* absent.
C1_ExactlyOnePopulated ==
    \A i \in Calls :
        /\ Returned(i) => result[i].tag = "Some"
        /\ result[i].tag = "Some" =>
             LET r == result[i].val
             IN  /\ r.success =>
                      r.audio_base64.tag = "Some" /\ r.error.tag = "None"
                 /\ ~r.success =>
                      r.error.tag = "Some" /\ r.audio_base64.tag = "None"

\* a 2xx response whose body was read: the one outcome with success = true
C1_Witness ==
    \E i \in Calls :
        /\ Returned(i) /\ GotStatus(i) /\ is_success(Status(i)) /\ ReadOk(i)
        /\ result[i].val.success

----------------------------------------------------------------------------
(* C2 *)

\* C2: when the endpoint answers 2xx and the body bytes B are read, the
\* result is success = true, audio_base64 = the standard base64 encoding of
\* B (bytes 01 02 give "AQI="), error absent, whatever the request was.
C2_SuccessIsBase64OfBody ==
    \A i \in Calls :
        (Returned(i) /\ GotStatus(i) /\ is_success(Status(i)) /\ ReadOk(i)) =>
            /\ result[i] =
                 Some([success      |-> TRUE,
                       audio_base64 |-> Some(Rfc4648(readResult[i].val.val)),
                       error        |-> None])
            /\ readResult[i].val.val = <<1, 2>> =>
                 result[i].val.audio_base64 = Some("AQI=")

\* the scenario of the specification, and a body longer than one group
C2_Witness ==
    \E i \in Calls :
        /\ Returned(i) /\ GotStatus(i) /\ Status(i) = 200 /\ ReadOk(i)
        /\ readResult[i].val.val = <<1, 2>>
        /\ result[i].val.audio_base64 = Some("AQI=")
        /\ request[i].val.format = "wav"

----------------------------------------------------------------------------
(* C3 *)

\* C3 as stated: a non-2xx status S gives success = false, audio absent and
\* error = "API error <S>: <T>", T the body text or "" when it cannot be
\* read.  <S> is accepted as the bare code or as the code with its reason.
C3_AsStated ==
    \A i \in Calls :
        (Returned(i) /\ GotStatus(i) /\ ~is_success(Status(i))) =>
            LET t == IF ReadOk(i) THEN readResult[i].val.val ELSE ""
            IN  /\ result[i].tag = "Some"
                /\ ~result[i].val.success
                /\ result[i].val.audio_base64 = None
                /\ result[i].val.error \in
                     { Some("API error " \o ToString(Status(i)) \o ": " \o t),
                       Some("API error " \o StatusDisplay(Status(i)) \o ": "
                            \o t) }

\* C3 amended: a non-2xx status S gives success = false, audio absent and
\* error = "API<U+9519><U+8BEF> <S>: <T>", <S> the code followed by its
\* canonical reason, T the body text or "" when it cannot be read; an
\* unreadable body never makes it a read error or a transport error.
C3_ApiErrorMessage ==
    \A i \in Calls :
        (Returned(i) /\ GotStatus(i) /\ ~is_success(Status(i))) =>
            LET t == IF ReadOk(i) THEN readResult[i].val.val ELSE ""
            IN  /\ result[i] =
                     Some([success      |-> FALSE,
                           audio_base64 |-> None,
                           error        |->
                               Some("API\\u{9519}\\u{8bef} "
                                    \o StatusDisplay(Status(i)) \o ": " \o t)])
                /\ \A e \in ReadErrors \cup TransportErrors :
                     /\ result[i].val.error /= ReadErrResponse(e).error
                     /\ result[i].val.error /= TransportErrResponse(e).error

\* a 401 whose body could not be read
C3_Witness ==
    \E i \in Calls :
        /\ Returned(i) /\ GotStatus(i) /\ Status(i) = 401 /\ ReadFailed(i)
        /\ result[i].val.error =
             Some("API\\u{9519}\\u{8bef} 401 Unauthorized: ")

----------------------------------------------------------------------------
(* C4 *)

\* C4 as stated: a send that fails before any response gives success =
\* false, audio absent and error = "request failed: <detail>".
C4_AsStated ==
    \A i \in Calls :
        (Returned(i) /\ TransportFailed(i)) =>
            /\ result[i].tag = "Some"
            /\ ~result[i].val.success
            /\ result[i].val.audio_base64 = None
            /\ result[i].val.error =
                 Some("request failed: " \o sendResult[i].val.err)

\* C4 amended: a send that fails before any response gives success = false,
\* audio absent and error = "<U+8BF7><U+6C42><U+5931><U+8D25>: <detail>";
\* the error is not empty, is not the message of any status, and no body
\* read is attempted.
C4_TransportErrorMessage ==
    \A i \in Calls :
        (Returned(i) /\ TransportFailed(i)) =>
            /\ result[i] =
                 Some([success      |-> FALSE,
                       audio_base64 |-> None,
                       error        |->
                           Some("\\u{8bf7}\\u{6c42}\\u{5931}\\u{8d25}: "
                                \o sendResult[i].val.err)])
            /\ result[i].val.error /= Some("")
            /\ \A s \in Statuses, r \in TextResults :
                 result[i].val.error /= ApiErrResponse(s, r).error
            /\ reads[i] = 0
            /\ readResult[i] = None

\* a send that failed
C4_Witness ==
    \E i \in Calls :
        /\ Returned(i) /\ TransportFailed(i)
        /\ sendResult[i].val.err = "builder error"
        /\ ~result[i].val.success

----------------------------------------------------------------------------
(* C5 *)

\* C5 as stated: a 2xx response whose bytes cannot be read gives success =
\* false, audio absent and error = "failed to read response: <detail>".
C5_AsStated ==
    \A i \in Calls :
        (Returned(i) /\ GotStatus(i) /\ is_success(Status(i)) /\ ReadFailed(i))
        =>  /\ result[i].tag = "Some"
            /\ ~result[i].val.success
            /\ result[i].val.audio_base64 = None
            /\ result[i].val.error =
                 Some("failed to read response: " \o readResult[i].val.err)

\* C5 amended: a 2xx response whose bytes cannot be read gives success =
\* false, audio absent (no partial audio) and error =
\* "<U+8BFB><U+53D6><U+54CD><U+5E94><U+5931><U+8D25>: <detail>".
C5_ReadErrorMessage ==
    \A i \in Calls :
        (Returned(i) /\ GotStatus(i) /\ is_success(Status(i)) /\ ReadFailed(i))
        =>  result[i] =
              Some([success      |-> FALSE,
                    audio_base64 |-> None,
                    error        |->
                        Some("\\u{8bfb}\\u{53d6}\\u{54cd}\\u{5e94}\\u{5931}\\u{8d25}: "
                             \o readResult[i].val.err)])

\* a 2xx response whose body read failed
C5_Witness ==
    \E i \in Calls :
        /\ Returned(i) /\ GotStatus(i) /\ Status(i) = 299 /\ ReadFailed(i)
        /\ result[i].val.audio_base64 = None

----------------------------------------------------------------------------
(* C6 *)

\* C6: every invocation ends by returning one result to its caller; no
\* step (client construction, send, status check, body read) ends it with
\* an unhandled fault instead.
C6_NoUnhandledFault ==
    \A i \in Calls :
        /\ pc[i] /= "panicked"
        /\ Returned(i) => result[i].tag = "Some"

----------------------------------------------------------------------------
(* C7 *)

\* C7: the outbound call is a POST to https://api.fish.audio/v1/tts whose
\* JSON body has exactly the keys text, reference_id and format with the
\* request's values; the api_key is only in Authorization: Bearer
\* <api_key>; the model is nowhere in the outbound request.
C7_OutboundShape ==
    \A i \in Calls :
        /\ sends[i] >= 1 <=> outbound[i].tag = "Some"
        /\ outbound[i].tag = "Some" =>
             LET o == outbound[i].val
                 r == request[i].val
             IN  /\ DOMAIN o = {"method", "url", "headers", "body"}
                 /\ o.method = "POST"
                 /\ o.url = "https://api.fish.audio/v1/tts"
                 /\ DOMAIN o.headers = {"Authorization", "ContentType"}
                 /\ o.headers.Authorization = "Bearer " \o r.api_key
                 /\ o.headers.ContentType = "application/json"
                 /\ DOMAIN o.body = {"text", "reference_id", "format"}
                 /\ o.body.text = r.text
                 /\ o.body.reference_id = r.reference_id
                 /\ o.body.format = r.format

\* a request with a model and a key of its own has been sent
C7_Witness ==
    \E i \in Calls :
        /\ outbound[i].tag = "Some"
        /\ request[i].val.model = "speech-1.6"
        /\ request[i].val.api_key = "k2"
        /\ outbound[i].val.headers.Authorization = "Bearer k2"

----------------------------------------------------------------------------
(* C8 *)

\* C8: a payload without model gives the request model "s1"; a payload
\* without format gives the request format "mp3", and "mp3" is the format of
\* the outbound JSON body; a supplied model or format is used as supplied.
C8_Defaults ==
    \A i \in Calls :
        request[i].tag = "Some" =>
            LET p == payload[i].val
                r == request[i].val
            IN  /\ r.model = IF "model" \in DOMAIN p THEN p["model"] ELSE "s1"
                /\ r.format = IF "format" \in DOMAIN p THEN p["format"]
                                                       ELSE "mp3"
                /\ outbound[i].tag = "Some" =>
                     outbound[i].val.body.format =
                       IF "format" \in DOMAIN p THEN p["format"] ELSE "mp3"

\* a payload with neither model nor format, sent with format "mp3"
C8_Witness ==
    \E i \in Calls :
        /\ payload[i].tag = "Some"
        /\ DOMAIN payload[i].val = {"text", "api_key", "reference_id"}
        /\ outbound[i].tag = "Some"
        /\ outbound[i].val.body.format = "mp3"
        /\ request[i].val.model = "s1"

----------------------------------------------------------------------------
(* C9 *)

\* C9: each invocation issues exactly one outbound POST and never a second
\* one; after a transport failure, a non-2xx response or a failed body read
\* it returns without retrying; the body is read at most once, and only
\* after the send has completed with a response.
C9_ExactlyOnePost ==
    \A i \in Calls :
        /\ sends[i] <= 1
        /\ reads[i] <= 1
        /\ reads[i] = 1 => GotStatus(i)
        /\ pc[i] \in {"done", "panicked"} => sends[i] = 1

----------------------------------------------------------------------------
(* C10 *)

\* what invocation i returns, from its own send and read outcomes alone
OwnResult(i) ==
    IF TransportFailed(i) THEN TransportErrResponse(sendResult[i].val.err)
    ELSE IF ~is_success(Status(i))
         THEN ApiErrResponse(Status(i), readResult[i].val)
    ELSE IF ReadOk(i) THEN OkResponse(readResult[i].val.val)
    ELSE ReadErrResponse(readResult[i].val.err)

SameCall(j) ==
    /\ pc'[j] = pc[j]
    /\ payload'[j] = payload[j]
    /\ request'[j] = request[j]
    /\ outbound'[j] = outbound[j]
    /\ sendResult'[j] = sendResult[j]
    /\ readResult'[j] = readResult[j]
    /\ result'[j] = result[j]
    /\ sends'[j] = sends[j]
    /\ reads'[j] = reads[j]

\* C10: under every interleaving of the invocations' suspension points, a
\* step belongs to one invocation and leaves every other invocation's state
\* as it was; a result is set once, for the invocation that took the step,
\* and is the one its own request and its own outbound outcome determine.
C10_Independent ==
    [][\E i \in Calls :
          /\ \A j \in Calls \ {i} : SameCall(j)
          /\ result'[i] /= result[i] =>
               /\ result[i] = None
               /\ pc'[i] = "done"
               /\ result'[i] = Some(OwnResult(i))'
          /\ pc[i] = "sending" =>
               outbound[i] = Some(BuildRequest(request[i].val))
      ]_vars

\* two invocations of different requests have both returned, one with
\* audio and one with an error
C10_Witness ==
    /\ pc[1] = "done" /\ pc[2] = "done"
    /\ request[1] /= request[2]
    /\ ~result[1].val.success
    /\ result[2].val.success

====
